---- MODULE Spec2Model ----
(***************************************************************************)
(* Scheduling and escalation core of the prescription reminder bot:        *)
(* schedule occurrences, the reminder and escalation queues (bull), the    *)
(* two workers, ReminderController.sendReminder,                           *)
(* EscalationController.handleEscalation, the user-response handlers and   *)
(* the pause / resume mutators.                                            *)
(*                                                                         *)
(* Every handler is an async function; it is cut into steps at its awaits  *)
(* (the store read, the outbound send, the store write, the enqueue), so   *)
(* that steps of different handlers interleave as they do on the event     *)
(* loop.  Jobs of one queue may run at the same time: every registration   *)
(* of queue.process, in this process or another, adds a consumer.  Time is *)
(* counted in ticks of TickMs milliseconds.                                *)
(***************************************************************************)
EXTENDS Integers, FiniteSets, Sequences, TLC

\* ------------------------------------------------------------- bounds
MaxTime == 8
MaxDue == 2
MaxResp == 2
MaxPause == 1
MaxResume == 1
MaxApi == 1
MaxCancel == 1
MaxReschedule == 2
MaxNewTime == 3
MaxQueueCalls == 1
MaxIdCalls == 2
MaxRemoveCalls == 2

Sched == {1, 2}

\* One tick is the smallest delay of the escalation table (5 * 60 * 1000 ms);
\* every other delay of the program is a multiple of it or rounds down to 0.
TickMs == 300000

\* ------------------------------------------------------------- constants
ReminderAttempts == 3
EscalationAttempts == 2
ReminderBackoffMs == 5000
EscalationBackoffMs == 30000
ESCALATION_DELAY == 900000
SnoozeMinutes == 30

\* CONSTANTS.LIMITS holds no MAX_ESCALATION_LEVEL: the comparison
\* `level < CONSTANTS.LIMITS.MAX_ESCALATION_LEVEL` reads undefined, and
\* `level < undefined` is false for every number.
LevelBelowMax(level) == FALSE

ScheduleStatusEnum == {"pending", "sent", "taken", "missed", "snoozed", "skipped"}
EscalationTypeEnum == {"reminder", "urgent", "voice_call", "caregiver", "clinic"}

VARIABLES now, env, user, sched, rq, eq, escRecs, outbox, resp, nextId, budget,
          last, removed, med, xp, upd, res, call

vars == <<now, env, user, sched, rq, eq, escRecs, outbox, resp, nextId, budget,
          last, removed, med, xp, upd, res, call>>

\* The flows outside the schedule expansion and the reschedule call leave
\* their state alone: med is the medication being expanded, xp the position
\* and the result of createSchedules, upd the last updateScheduleTime call,
\* res the resumeMedicationSchedules call in progress, call the last direct
\* call of a queue's add method with the clock it read and what it returned.
NoMedication ==
  [frequency |-> "none", times |-> <<>>, duration |-> 0, daysOfWeek |-> {},
   dayOfMonth |-> 0, startWeekday |-> 0, startDom |-> 1]

ExpandIdle ==
  [pc |-> "idle", day |-> 0, slot |-> 1, callTime |-> 0, ticks |-> 0,
   created |-> {}]

ResumeIdle == [pc |-> "idle", found |-> {}]
NoCall == [n |-> 0, fn |-> "none", sid |-> 0, arg |-> 0, clock |-> 0, time |-> 0,
           job |-> 0, ret |-> 0, ids |-> {}, dup |-> FALSE]

\* What a call that returned undefined has as its time.
Undefined == -1
NoUpdate == [n |-> 0, sid |-> 0, old |-> 0, new |-> 0, result |-> "none"]

Absent == [status |-> "absent", time |-> 0, level |-> 0, lastEsc |-> 0,
           cg |-> FALSE, snoozes |-> 0]

Exists(s) == sched[s].status # "absent"

\* ------------------------------------------------------------- pure helpers
getEscalationType(level) ==
  CASE level = 1 -> "urgent"
    [] level = 2 -> "voice_reminder"
    [] level = 3 -> "voice_call"
    [] level = 4 -> "caregiver"
    [] level = 5 -> "clinic"
    [] OTHER -> "unknown"

\* A table with one delay for every level.
getEscalationDelayFlat(level) == 15 * 60 * 1000

getEscalationDelay(level) ==
  CASE level = 1 -> 30 * 60 * 1000
    [] level = 2 -> 15 * 60 * 1000
    [] level = 3 -> 15 * 60 * 1000
    [] level = 4 -> 10 * 60 * 1000
    [] level = 5 -> 5 * 60 * 1000
    [] OTHER -> 30 * 60 * 1000

\* A schema that takes every level and type.
EscalationValidAny(level) == TRUE

\* Escalation.create validates the document: level within min 1 / max 5 and
\* type within the schema's enum.
EscalationValid(level) ==
  /\ level >= 1
  /\ level <= 5
  /\ getEscalationType(level) \in EscalationTypeEnum

Ticks(ms) == ms \div TickMs

UserProfiles ==
  [escalationEnabled : BOOLEAN, voiceReminders : BOOLEAN,
   caregivers : BOOLEAN, clinicId : BOOLEAN, quiet : BOOLEAN]

\* env fixes what the surroundings do in one run: which occurrences the
\* expansion creates and whether outbound sends can fail.
\* voiceCalls is the deployment's ENABLE_VOICE_CALLS setting, drawn from voice.
InitEnv(live, faults, voice, profiles, limits) ==
  /\ now = 0
  /\ env \in {[live |-> live, faults |-> faults, max |-> limits, voiceCalls |-> v] :
               v \in voice}
  /\ user \in profiles
  /\ sched = [s \in Sched |-> Absent]
  /\ rq = {}
  /\ eq = {}
  /\ escRecs = {}
  /\ outbox = {}
  /\ resp = {}
  /\ nextId = 1
  /\ budget = [resp |-> 0, pause |-> 0, resume |-> 0, api |-> 0, cancel |-> 0]
  /\ last = [q |-> "none", sid |-> 0, level |-> 0, result |-> "none"]
  /\ removed = {}
  /\ med = NoMedication
  /\ xp = ExpandIdle
  /\ upd = NoUpdate
  /\ res = ResumeIdle
  /\ call = NoCall

\* A deployment that leaves ENABLE_VOICE_CALLS unset.
InitWith(live, faults, profiles, limits) ==
  InitEnv(live, faults, {FALSE}, profiles, limits)

Limits(r, p, u, a, c) ==
  [resp |-> r, pause |-> p, resume |-> u, api |-> a, cancel |-> c]

\* Levels 4 and 5 read the caregiver and clinic settings; where only the
\* reminder flow enqueues escalations they are never read.
CoreProfiles == {u \in UserProfiles : ~u.caregivers /\ ~u.clinicId}

Init == InitWith({1}, FALSE, CoreProfiles, Limits(MaxResp, MaxPause, MaxResume, 0, 0))

\* Quiet hours and the voice flag only shape the first reminder.
ApiProfiles == {u \in UserProfiles : ~u.quiet /\ ~u.voiceReminders}

InitApi == InitWith({1}, FALSE, ApiProfiles, Limits(1, 0, 0, MaxApi, MaxCancel))

\* ------------------------------------------------------------- clock
\* A handler step takes milliseconds and a tick is TickMs: the clock moves
\* on only when no job is due or running and no response is being handled.
Busy ==
  \/ \E j \in rq \cup eq : j.pc # "queued" \/ j.due <= now
  \/ resp # {}

Tick ==
  /\ now < MaxTime
  /\ ~Busy
  /\ now' = now + 1
  /\ UNCHANGED <<env, call, med, xp, upd, res, user, sched, rq, eq, escRecs, outbox, resp, nextId, budget, last, removed>>

\* The wall clock at Init, in ticks since midnight (06:40); an hour is 12
\* ticks, so quiet hours end within MaxTime.
DayStartTick == 80
currentHour == ((DayStartTick + now) \div 12) % 24
QuietStart == 22
QuietEnd == 7

isQuietHours ==
  IF ~user.quiet THEN FALSE
  ELSE IF QuietStart <= QuietEnd
       THEN currentHour >= QuietStart /\ currentHour < QuietEnd
       ELSE currentHour >= QuietStart \/ currentHour < QuietEnd

\* Outcomes of sending k messages in a row: how many are delivered.
SendOutcomes(k) == IF env.faults THEN 0..k ELSE {k}

\* ------------------------------------------------------------- queues
\* A job is delayed or waiting while pc = "queued" and active otherwise.
ReminderJob(id, s, t, snoozed) ==
  [id |-> id, sid |-> s, snoozed |-> snoozed, time |-> t, due |-> t,
   pc |-> "queued", att |-> 0]

\* addReminder refuses a negative delay and enqueues otherwise.  Date.now()
\* read during tick `now` lies after the tick's start, where the jobs due at
\* that tick fire: a time of the current tick is already in the past.
\* The test on the delay in milliseconds, and one that turns away a delay
\* of 0 as well.
addReminderRefusesZero(delay) == delay <= 0

addReminderRefuses(delay) == delay < 0

addReminderAccepts(t) == ~addReminderRefuses(t * TickMs - (now * TickMs + 1))

addReminder(q, id, s, t, snoozed) ==
  IF addReminderAccepts(t) THEN q \cup {ReminderJob(id, s, t, snoozed)} ELSE q

\* The tick in which a time in milliseconds lies; a job fires in the tick of
\* its time, or at once when that tick is over.
TickOf(ms) == ms \div TickMs

\* addReminder as addReminderCall runs it, with the scheduled time and the
\* clock it reads in milliseconds.
addReminderAt(q, id, s, scheduledMs, clockMs) ==
  IF addReminderRefuses(scheduledMs - clockMs) THEN q
  ELSE q \cup {ReminderJob(id, s, TickOf(scheduledMs), FALSE)}

\* timer marks the in-process setTimeout that handleEscalation arms for the
\* next level: it is no queue job, no removal reaches it and nothing retries it.
EscalationJob(id, s, level, t) ==
  [id |-> id, sid |-> s, level |-> level, due |-> t, pc |-> "queued", att |-> 0,
   timer |-> FALSE]

EscalationTimer(id, s, level, t) ==
  [EscalationJob(id, s, level, t) EXCEPT !.timer = TRUE]

IsQueueJob(j) == "timer" \notin DOMAIN j \/ ~j.timer

\* An add that turns away a time before now, the way addReminder does.
addEscalationFutureOnly(q, id, s, level, t) ==
  IF t < now THEN q ELSE q \cup {EscalationJob(id, s, level, t)}

\* addEscalation hands every delay to the queue; bull takes a negative
\* delay as 0 and the job waits to be run at once.
addEscalation(q, id, s, level, t) == q \cup {EscalationJob(id, s, level, t)}

\* scheduleEscalation: one job due now + getEscalationDelay(level).
scheduleEscalation(q, id, s, level) ==
  addEscalation(q, id, s, level, now + Ticks(getEscalationDelay(level)))

\* A removal that takes the active jobs of the occurrence as well.
removeByScheduleIdActiveToo(q, s) ==
  {j \in q : ~(IsQueueJob(j) /\ j.sid = s)}

\* A removal that scans the waiting jobs and misses the delayed ones.
removeByScheduleIdWaitingOnly(q, s) ==
  {j \in q : ~(IsQueueJob(j) /\ j.pc = "queued" /\ j.due <= now /\ j.sid = s)}

\* removeByScheduleId scans the delayed and waiting jobs only.
removeByScheduleId(q, s) ==
  {j \in q : ~(IsQueueJob(j) /\ j.pc = "queued" /\ j.sid = s)}

\* A retry policy that grants one run more than `attempts`.
retryJobOneMore(q, j, attempts, backoffMs) ==
  IF IsQueueJob(j) /\ j.att + 1 <= attempts
  THEN (q \ {j}) \cup {[j EXCEPT !.att = @ + 1, !.pc = "queued",
                                 !.due = now + Ticks(backoffMs)]}
  ELSE q \ {j}

\* bull moves a job whose processor threw back to delayed (after the
\* backoff) while attempts remain, and to failed otherwise.
retryJob(q, j, attempts, backoffMs) ==
  IF IsQueueJob(j) /\ j.att + 1 < attempts
  THEN (q \ {j}) \cup {[j EXCEPT !.att = @ + 1, !.pc = "queued",
                                 !.due = now + Ticks(backoffMs)]}
  ELSE q \ {j}

\* The first n messages of msgs are delivered for schedule s by job j.
Delivered(src, j, msgs, n) ==
  {[src |-> src, sid |-> j.sid, kind |-> msgs[i].kind, to |-> msgs[i].to,
    job |-> j.id, att |-> j.att] : i \in 1..n}

\* What the queue learns when a processor returns or throws: `last` keeps
\* the outcome of the job that finished most recently.
Outcome(q, j, level, result) ==
  [q |-> q, sid |-> j.sid, level |-> level, result |-> result]

\* A processor that swallows the controller's error and returns normally.
failResultSwallowed(j, attempts) == "done"

\* The processor re-throws the controller's error: the queue counts the
\* attempt as failed.
failResult(j, attempts) ==
  IF IsQueueJob(j) /\ j.att + 1 < attempts THEN "retry" ELSE "failed"

Msg(kind, to) == [kind |-> kind, to |-> to]

\* ------------------------------------------------------------- expansion
\* createSchedules, one time slot: an occurrence is created and its
\* reminder queued only for a due time in the future.
CreateSchedule(s, t) ==
  /\ s \in env.live
  /\ ~Exists(s)
  /\ t > now
  /\ sched' = [sched EXCEPT ![s] = [Absent EXCEPT !.status = "pending", !.time = t]]
  /\ rq' = addReminder(rq, nextId, s, t, FALSE)
  /\ nextId' = nextId + 1
  /\ UNCHANGED <<now, env, call, med, xp, upd, res, user, eq, escRecs, outbox, resp, budget, last, removed>>

\* ------------------------------------------------------------- createSchedules
\* The whole of createSchedules for one medication.  Days are counted from
\* the start date (day 0, the day of the call), a slot is an hour of the
\* day, and a due time is in ticks on the scale of `now`.
MaxDuration == 7
MaxExpandTicks == 1
MonthLen == 30

TicksPerHour == Ticks(60 * 60 * 1000)
TicksPerDay == Ticks(24 * 60 * 60 * 1000)

Frequencies == {"daily", "weekly", "monthly", "asNeeded"}
ExpandTimes == {<<>>, <<8>>, <<8, 20>>}
Weekdays == 0..6

\* dayOfMonth 0 stands for a definition without the field.
Medications ==
  {m \in [frequency : Frequencies, times : ExpandTimes, duration : 0..MaxDuration,
          daysOfWeek : {d \in SUBSET Weekdays : Cardinality(d) <= 2 \/ d = Weekdays},
          dayOfMonth : {0, 1, MonthLen}, startWeekday : {0, 5},
          startDom : {1, MonthLen - 1}] :
     /\ m.frequency # "weekly" => m.daysOfWeek = {} /\ m.startWeekday = 0
     /\ m.frequency # "monthly" => m.dayOfMonth = 0 /\ m.startDom = 1}

\* The call comes at 07:55, 08:00 or 09:00 of day 0.
ExpandCallTimes == {15, 16, 28}

\* date.getDay() and date.getDate() of day `day` of the walk.
getDay(m, day) == (m.startWeekday + day) % 7
getDate(m, day) == ((m.startDom - 1 + day) % MonthLen) + 1

shouldScheduleTodayByDate(m, day) ==
  IF m.frequency = "daily" THEN TRUE
  ELSE IF m.frequency = "weekly" THEN getDate(m, day) \in m.daysOfWeek
  ELSE IF m.frequency = "monthly" THEN getDate(m, day) = m.dayOfMonth
  ELSE FALSE

shouldScheduleToday(m, day) ==
  IF m.frequency = "daily" THEN TRUE
  ELSE IF m.frequency = "weekly" THEN getDay(m, day) \in m.daysOfWeek
  ELSE IF m.frequency = "monthly" THEN getDate(m, day) = m.dayOfMonth
  ELSE FALSE

\* setHours(hours, minutes, 0, 0) on the day; moment.tz(date, zone).toDate()
\* gives back the same instant.
getScheduledTime(day, hour) == day * TicksPerDay + hour * TicksPerHour - DayStartTick

\* while (currentDate <= endDate), endDate being startDate + duration days:
\* both carry the start's time of day.
dayInWindow(m, day) == day <= m.duration

scheduledNotPast(t) == t >= now

\* if (scheduledTime > new Date())
scheduledInFuture(t) == t > now

\* User.findById, then the loop starts at the start date.
createSchedulesStart ==
  /\ xp.pc = "idle"
  /\ med.frequency # "none"
  /\ xp' = [ExpandIdle EXCEPT !.pc = "loop", !.callTime = now]
  /\ UNCHANGED <<now, env, call, med, upd, res, user, sched, rq, eq, escRecs, outbox, resp, nextId,
                 budget, last, removed>>

\* One turn of the loops: leave the while, move to the next day, skip a
\* past slot, or create the occurrence of a future one.
createSchedulesStep ==
  /\ xp.pc = "loop"
  /\ xp' =
       IF ~dayInWindow(med, xp.day) THEN [xp EXCEPT !.pc = "done"]
       ELSE IF ~shouldScheduleToday(med, xp.day) \/ xp.slot > Len(med.times)
       THEN [xp EXCEPT !.day = @ + 1, !.slot = 1]
       ELSE LET t == getScheduledTime(xp.day, med.times[xp.slot])
            IN IF scheduledInFuture(t)
               THEN [xp EXCEPT !.pc = "enqueue",
                               !.created = @ \cup {[id |-> Cardinality(xp.created) + 1,
                                                    day |-> xp.day, slot |-> xp.slot,
                                                    time |-> t, status |-> "pending"]}]
               ELSE [xp EXCEPT !.slot = @ + 1]
  /\ UNCHANGED <<now, env, call, med, upd, res, user, sched, rq, eq, escRecs, outbox, resp, nextId,
                 budget, last, removed>>

\* reminderQueue.addReminder for the occurrence just created.
createSchedulesEnqueue ==
  /\ xp.pc = "enqueue"
  /\ LET o == CHOOSE c \in xp.created : c.day = xp.day /\ c.slot = xp.slot
     IN rq' = addReminder(rq, nextId, o.id, o.time, FALSE)
  /\ nextId' = nextId + 1
  /\ xp' = [xp EXCEPT !.pc = "loop", !.slot = @ + 1]
  /\ UNCHANGED <<now, env, call, med, upd, res, user, sched, eq, escRecs, outbox, resp, budget, last,
                 removed>>

\* The clock moves on while createSchedules awaits the store or the queue.
ExpandTick ==
  /\ xp.pc \in {"loop", "enqueue"}
  /\ xp.ticks < MaxExpandTicks
  /\ now' = now + 1
  /\ xp' = [xp EXCEPT !.ticks = @ + 1]
  /\ UNCHANGED <<env, call, med, upd, res, user, sched, rq, eq, escRecs, outbox, resp, nextId, budget,
                 last, removed>>

InitExpand ==
  /\ now \in ExpandCallTimes
  /\ env = [live |-> {}, faults |-> FALSE, max |-> Limits(0, 0, 0, 0, 0),
            voiceCalls |-> FALSE]
  /\ user \in {u \in CoreProfiles : ~u.quiet /\ ~u.voiceReminders /\ ~u.escalationEnabled}
  /\ sched = [s \in Sched |-> Absent]
  /\ rq = {}
  /\ eq = {}
  /\ escRecs = {}
  /\ outbox = {}
  /\ resp = {}
  /\ nextId = 1
  /\ budget = [resp |-> 0, pause |-> 0, resume |-> 0, api |-> 0, cancel |-> 0]
  /\ last = [q |-> "none", sid |-> 0, level |-> 0, result |-> "none"]
  /\ removed = {}
  /\ med \in Medications
  /\ xp = ExpandIdle
  /\ upd = NoUpdate
  /\ res = ResumeIdle
  /\ call = NoCall

\* ------------------------------------------------------------- reminder worker
\* A worker that is gone once a job has failed for good.
workerStopsOnFailure == last.result # "failed"

\* The processors stay registered whatever a job's outcome: an error of a
\* handler is re-thrown to the queue and ends neither the worker nor the
\* process.
workerRunning == TRUE

ReminderDispatch(j) ==
  /\ workerRunning
  /\ j.pc = "queued"
  /\ j.due <= now
  /\ rq' = (rq \ {j}) \cup {[j EXCEPT !.pc = "fetch"]}
  /\ UNCHANGED <<now, env, call, med, xp, upd, res, user, sched, eq, escRecs, outbox, resp, nextId, budget, last, removed>>

\* The checks of sendReminder with the status test left out.
sendReminderProceedsAnyStatus(s) ==
  /\ Exists(s)
  /\ ~isQuietHours

\* The checks at the top of sendReminder: the occurrence exists, is pending,
\* and it is not the user's quiet time.
sendReminderProceeds(s) ==
  /\ Exists(s)
  /\ sched[s].status = "pending"
  /\ ~isQuietHours

\* sendReminder up to the quiet-hours check: return without effect, or go on.
sendReminderFetch(j) ==
  /\ j.pc = "fetch"
  /\ rq' = IF sendReminderProceeds(j.sid)
           THEN (rq \ {j}) \cup {[j EXCEPT !.pc = "send"]}
           ELSE rq \ {j}
  /\ last' = IF sendReminderProceeds(j.sid) THEN last
             ELSE Outcome("reminder", j, 0, "noop")
  /\ UNCHANGED <<now, env, call, med, xp, upd, res, user, sched, eq, escRecs, outbox, resp, nextId, budget, removed>>

\* user.isSubscribed() is taken as true for a user with voice reminders.
reminderMsgs ==
  IF user.voiceReminders
  THEN <<Msg("voice_note", "user"), Msg("reminder", "user")>>
  ELSE <<Msg("reminder", "user")>>

\* The sends; a failed send throws and the worker re-throws to the queue.
sendReminderSend(j, n) ==
  /\ j.pc = "send"
  /\ n \in SendOutcomes(Len(reminderMsgs))
  /\ outbox' = outbox \cup Delivered("reminder", j, reminderMsgs, n)
  /\ rq' = IF n = Len(reminderMsgs)
           THEN (rq \ {j}) \cup {[j EXCEPT !.pc = "save"]}
           ELSE retryJob(rq, j, ReminderAttempts, ReminderBackoffMs)
  /\ last' = IF n = Len(reminderMsgs) THEN last
             ELSE Outcome("reminder", j, 0, failResult(j, ReminderAttempts))
  /\ UNCHANGED <<now, env, call, med, xp, upd, res, user, sched, eq, escRecs, resp, nextId, budget, removed>>

\* schedule.status = 'sent'; schedule.save()
sendReminderSave(j) ==
  /\ j.pc = "save"
  /\ sched' = [sched EXCEPT ![j.sid].status = "sent"]
  /\ rq' = IF user.escalationEnabled
           THEN (rq \ {j}) \cup {[j EXCEPT !.pc = "esc"]}
           ELSE rq \ {j}
  /\ last' = IF user.escalationEnabled THEN last ELSE Outcome("reminder", j, 0, "done")
  /\ UNCHANGED <<now, env, call, med, xp, upd, res, user, eq, escRecs, outbox, resp, nextId, budget, removed>>

\* escalationService.scheduleEscalation(scheduleId, 1)
sendReminderEscalate(j) ==
  /\ j.pc = "esc"
  /\ eq' = scheduleEscalation(eq, nextId, j.sid, 1)
  /\ nextId' = nextId + 1
  /\ rq' = rq \ {j}
  /\ last' = Outcome("reminder", j, 0, "done")
  /\ UNCHANGED <<now, env, call, med, xp, upd, res, user, sched, escRecs, outbox, resp, budget, removed>>

\* ------------------------------------------------------------- escalation worker
EscalationDispatch(j) ==
  /\ workerRunning
  /\ j.pc = "queued"
  /\ j.due <= now
  /\ eq' = (eq \ {j}) \cup {[j EXCEPT !.pc = "fetch"]}
  /\ UNCHANGED <<now, env, call, med, xp, upd, res, user, sched, rq, escRecs, outbox, resp, nextId, budget, last, removed>>

\* The re-check with the status test left out.
escalationProceedsNoStatus(s) == Exists(s)

\* The re-check at the top of handleEscalation (and of checkAndEscalate).
escalationProceeds(s) == Exists(s) /\ sched[s].status = "sent"

EscalationRecord(j) ==
  [job |-> j.id, att |-> j.att, sid |-> j.sid, level |-> j.level,
   type |-> getEscalationType(j.level), status |-> "pending",
   cgNotified |-> FALSE, resolved |-> FALSE, resolvedBy |-> "none", resolvedAt |-> 0]

\* handleEscalation up to Escalation.create: a no-op when the occurrence is
\* gone or not `sent`; a rejected document throws.
handleEscalationFetch(j) ==
  /\ j.pc = "fetch"
  /\ IF ~escalationProceeds(j.sid)
     THEN /\ eq' = eq \ {j}
          /\ last' = Outcome("escalation", j, j.level, "noop")
          /\ UNCHANGED escRecs
     ELSE IF ~EscalationValid(j.level)
     THEN /\ eq' = retryJob(eq, j, EscalationAttempts, EscalationBackoffMs)
          /\ last' = Outcome("escalation", j, j.level, failResult(j, EscalationAttempts))
          /\ UNCHANGED escRecs
     ELSE /\ eq' = (eq \ {j}) \cup {[j EXCEPT !.pc = "act"]}
          /\ escRecs' = escRecs \cup {EscalationRecord(j)}
          /\ UNCHANGED last
  /\ UNCHANGED <<now, env, call, med, xp, upd, res, user, sched, rq, outbox, resp, nextId, budget, removed>>

urgentMsgs == <<Msg("urgent", "user")>>

\* sendVoiceReminder: the urgent text when voice reminders are off.
voiceReminderMsgs ==
  IF ~user.voiceReminders
  THEN urgentMsgs
  ELSE <<Msg("voice_note", "user"), Msg("respond", "user")>>

\* makeVoiceCall's guard `!process.env.ENABLE_VOICE_CALLS === 'true'`
\* compares a boolean with a string: it never holds, the call is always tried.
voiceCallSkipped == FALSE

\* alertClinic returns at once without a clinic id, and messages the user
\* when there is one.
clinicMsgs == IF ~user.clinicId THEN <<>> ELSE <<Msg("critical", "user")>>

caregiverMsgs == IF ~user.caregivers THEN <<>> ELSE <<Msg("caregiver", "caregiver")>>

\* The switch of handleEscalation for levels 1, 2 and 5 and its default
\* branch, which only logs: the sends must all succeed, a failure throws.
handleEscalationSend(j, n) ==
  /\ j.pc = "act"
  /\ j.level \notin {3, 4}
  /\ LET msgs == CASE j.level = 1 -> urgentMsgs
                   [] j.level = 2 -> voiceReminderMsgs
                   [] j.level = 5 -> clinicMsgs
                   [] OTHER -> <<>>
     IN /\ n \in SendOutcomes(Len(msgs))
        /\ outbox' = outbox \cup Delivered("escalation", j, msgs, n)
        /\ eq' = IF n = Len(msgs)
                 THEN (eq \ {j}) \cup {[j EXCEPT !.pc = "save"]}
                 ELSE retryJob(eq, j, EscalationAttempts, EscalationBackoffMs)
        /\ last' = IF n = Len(msgs) THEN last
                   ELSE Outcome("escalation", j, j.level, failResult(j, EscalationAttempts))
  /\ UNCHANGED <<now, env, call, med, xp, upd, res, user, sched, rq, escRecs, resp, nextId, budget, removed>>

\* makeVoiceCall: the call, and on a failed call the voice reminder.
makeVoiceCall(j, callOk, n) ==
  /\ j.pc = "act"
  /\ j.level = 3
  /\ callOk \in {TRUE} \cup {~env.faults}
  /\ IF voiceCallSkipped \/ ~callOk
     THEN /\ n \in SendOutcomes(Len(voiceReminderMsgs))
          /\ outbox' = outbox \cup Delivered("escalation", j, voiceReminderMsgs, n)
          /\ eq' = IF n = Len(voiceReminderMsgs)
                   THEN (eq \ {j}) \cup {[j EXCEPT !.pc = "save"]}
                   ELSE retryJob(eq, j, EscalationAttempts, EscalationBackoffMs)
          /\ last' = IF n = Len(voiceReminderMsgs) THEN last
                     ELSE Outcome("escalation", j, j.level,
                                  failResult(j, EscalationAttempts))
     ELSE /\ n = 0
          /\ outbox' = outbox \cup Delivered("escalation", j, <<Msg("voice_call", "user")>>, 1)
          /\ eq' = (eq \ {j}) \cup {[j EXCEPT !.pc = "save"]}
          /\ UNCHANGED last
  /\ UNCHANGED <<now, env, call, med, xp, upd, res, user, sched, rq, escRecs, resp, nextId, budget, removed>>

\* alertCaregiver: nothing without a caregiver; a failed send is logged and
\* swallowed; a delivered one stamps the record and the occurrence.
alertCaregiver(j, n) ==
  /\ j.pc = "act"
  /\ j.level = 4
  /\ n \in SendOutcomes(Len(caregiverMsgs))
  /\ outbox' = outbox \cup Delivered("escalation", j, caregiverMsgs, n)
  /\ IF n = 1
     THEN /\ escRecs' = {IF r.job = j.id /\ r.att = j.att
                         THEN [r EXCEPT !.cgNotified = TRUE] ELSE r : r \in escRecs}
          /\ sched' = [sched EXCEPT ![j.sid].cg = TRUE]
     ELSE UNCHANGED <<escRecs, sched>>
  /\ eq' = (eq \ {j}) \cup {[j EXCEPT !.pc = "save"]}
  /\ UNCHANGED <<now, env, call, med, xp, upd, res, user, rq, resp, nextId, budget, last, removed>>

\* The tail of handleEscalation: stamp the occurrence; the next level would
\* be armed by setTimeout when level < MAX_ESCALATION_LEVEL.
handleEscalationSave(j) ==
  /\ j.pc = "save"
  /\ sched' = [sched EXCEPT ![j.sid].level = j.level, ![j.sid].lastEsc = now]
  /\ eq' = IF LevelBelowMax(j.level)
           THEN (eq \ {j}) \cup
                {EscalationTimer(nextId, j.sid, j.level + 1, now + Ticks(ESCALATION_DELAY))}
           ELSE eq \ {j}
  /\ nextId' = IF LevelBelowMax(j.level) THEN nextId + 1 ELSE nextId
  /\ last' = Outcome("escalation", j, j.level, "done")
  /\ UNCHANGED <<now, env, call, med, xp, upd, res, user, rq, escRecs, outbox, resp, budget, removed>>

\* ------------------------------------------------------------- user responses
\* findOne({userId, status: 'sent'}).sort({scheduledTime: -1})
latestSent ==
  {s \in Sched : /\ Exists(s)
                 /\ sched[s].status = "sent"
                 /\ \A o \in Sched :
                      (Exists(o) /\ sched[o].status = "sent") => sched[o].time <= sched[s].time}

\* Schedule.recordResponse: the status an action maps to.
recordResponse(action) ==
  CASE action = "taken" -> "taken"
    [] action = "snoozed" -> "snoozed"
    [] action = "skipped" -> "skipped"
    [] OTHER -> "missed"

\* The read every response handler starts with: handleReminderResponse
\* (taken, snoozed, skipped) and MessageController.handleMedicationTaken /
\* handleSnooze (taken, snoozed) fetch the latest `sent` occurrence.
ResponseFind(kind) ==
  /\ budget.resp < env.max.resp
  /\ \E s \in latestSent :
       resp' = resp \cup {[n |-> budget.resp, sid |-> s, kind |-> kind]}
  /\ budget' = [budget EXCEPT !.resp = @ + 1]
  /\ UNCHANGED <<now, env, call, med, xp, upd, res, user, sched, rq, eq, escRecs, outbox, nextId, last, removed>>

\* snoozeReminder: a snooze re-fire due now + minutes.
snoozeReminder(q, id, s, minutes) ==
  IF Exists(s) THEN addReminder(q, id, s, now + Ticks(minutes * 60 * 1000), TRUE) ELSE q

\* ReminderController.handleTaken: the write of the fetched document.
handleTaken(r) ==
  /\ r.kind = "taken"
  /\ sched' = [sched EXCEPT ![r.sid].status = "taken"]
  /\ resp' = resp \ {r}
  /\ UNCHANGED <<now, env, call, med, xp, upd, res, user, rq, eq, escRecs, outbox, nextId, budget, last, removed>>

handleSkip(r) ==
  /\ r.kind = "skipped"
  /\ sched' = [sched EXCEPT ![r.sid].status = "skipped"]
  /\ resp' = resp \ {r}
  /\ UNCHANGED <<now, env, call, med, xp, upd, res, user, rq, eq, escRecs, outbox, nextId, budget, last, removed>>

handleSnooze(r) ==
  /\ r.kind = "snoozed"
  /\ sched' = [sched EXCEPT ![r.sid].status = "snoozed", ![r.sid].snoozes = @ + 1]
  /\ rq' = snoozeReminder(rq, nextId, r.sid, SnoozeMinutes)
  /\ nextId' = nextId + 1
  /\ resp' = resp \ {r}
  /\ UNCHANGED <<now, env, call, med, xp, upd, res, user, eq, escRecs, outbox, budget, last, removed>>

\* MessageController.handleMedicationTaken: recordResponse('taken'), save.
handleMedicationTaken(r) ==
  /\ r.kind = "taken"
  /\ sched' = [sched EXCEPT ![r.sid].status = recordResponse("taken")]
  /\ resp' = resp \ {r}
  /\ UNCHANGED <<now, env, call, med, xp, upd, res, user, rq, eq, escRecs, outbox, nextId, budget, last, removed>>

\* MessageController.handleSnooze: recordResponse('snoozed'), save, snoozeReminder.
messageHandleSnooze(r) ==
  /\ r.kind = "snoozed"
  /\ sched' = [sched EXCEPT ![r.sid].status = recordResponse("snoozed"),
                            ![r.sid].snoozes = @ + 1]
  /\ rq' = snoozeReminder(rq, nextId, r.sid, 30)
  /\ nextId' = nextId + 1
  /\ resp' = resp \ {r}
  /\ UNCHANGED <<now, env, call, med, xp, upd, res, user, eq, escRecs, outbox, budget, last, removed>>

\* ------------------------------------------------------------- pause / resume
\* All occurrences belong to the one medication of the model.
\* pauseMedicationSchedules: updateMany pending -> paused; the queue call
\* removeByMedicationId only logs.
removeByMedicationId(q) == q

pauseMedicationSchedules ==
  /\ budget.pause < env.max.pause
  /\ \E s \in Sched : Exists(s)
  /\ sched' = [s \in Sched |->
                 IF sched[s].status = "pending"
                 THEN [sched[s] EXCEPT !.status = "paused"] ELSE sched[s]]
  /\ rq' = removeByMedicationId(rq)
  /\ budget' = [budget EXCEPT !.pause = @ + 1]
  /\ UNCHANGED <<now, env, call, med, xp, upd, res, user, eq, escRecs, outbox, resp, nextId, last, removed>>

\* The occurrences the resume query finds: paused and scheduledTime >= now,
\* which an occurrence of the current tick no longer satisfies (see
\* addReminderAccepts).
resumable == {s \in Sched : sched[s].status = "paused" /\ sched[s].time > now}

RECURSIVE requeueAll(_, _, _)
requeueAll(q, id, S) ==
  IF S = {} THEN q
  ELSE LET s == CHOOSE x \in S : \A y \in S : x <= y
       IN requeueAll(addReminder(q, id, s, sched[s].time, FALSE), id + 1, S \ {s})

\* resumeMedicationSchedules up to the end of its query: `now` is read once
\* and the paused occurrences not yet due are loaded.
resumeMedicationSchedules ==
  /\ budget.resume < env.max.resume
  /\ budget.pause > 0
  /\ res.pc = "idle"
  /\ res' = [pc |-> "found", found |-> resumable]
  /\ budget' = [budget EXCEPT !.resume = @ + 1]
  /\ UNCHANGED <<now, env, call, med, xp, upd, user, sched, rq, eq, escRecs, outbox, resp, nextId, last, removed>>

\* The loop over the loaded occurrences: each is saved as pending and handed
\* to addReminder, which reads the clock again.  The awaits of the handler
\* lie between the two steps, and the clock may reach the next tick there.
resumeMedicationSchedulesRequeue ==
  /\ res.pc = "found"
  /\ sched' = [s \in Sched |->
                 IF s \in res.found
                 THEN [sched[s] EXCEPT !.status = "pending"] ELSE sched[s]]
  /\ rq' = requeueAll(rq, nextId, res.found)
  /\ nextId' = nextId + Cardinality(res.found)
  /\ res' = ResumeIdle
  /\ UNCHANGED <<now, env, call, med, xp, upd, user, eq, escRecs, outbox, resp, budget, last, removed>>

\* ------------------------------------------------------------- updateScheduleTime
\* How the first half of updateScheduleTime ends: findById returns nothing
\* and the handler throws, or save throws, or the new time is stored.
updateOutcomeNoCheck(s, saveOk) ==
  IF ~saveOk THEN "error" ELSE "saved"

updateOutcome(s, saveOk) ==
  IF ~Exists(s) THEN "notfound"
  ELSE IF ~saveOk THEN "error" ELSE "saved"

\* updateScheduleTime up to the awaited save.  An id outside env.live is an
\* id no occurrence ever has.
updateScheduleTime(s, newTime, saveOk) ==
  /\ upd.n < MaxReschedule
  /\ upd.result # "saved"
  /\ upd' = [n |-> upd.n + 1, sid |-> s, old |-> sched[s].time, new |-> newTime,
             result |-> updateOutcome(s, saveOk)]
  /\ sched' = IF updateOutcome(s, saveOk) = "saved"
              THEN [sched EXCEPT ![s].time = newTime] ELSE sched
  /\ UNCHANGED <<now, env, call, med, xp, res, user, rq, eq, escRecs, outbox, resp, nextId, budget, last, removed>>

\* The queue update after the save: the delayed and waiting jobs of the
\* occurrence are removed and addReminder is called with the new time.
updateScheduleTimeQueue ==
  /\ upd.result = "saved"
  /\ rq' = addReminder(removeByScheduleId(rq, upd.sid), nextId, upd.sid, upd.new, FALSE)
  /\ nextId' = nextId + 1
  /\ upd' = [upd EXCEPT !.result = "ok"]
  /\ UNCHANGED <<now, env, call, med, xp, res, user, sched, eq, escRecs, outbox, resp, budget, last, removed>>

\* ------------------------------------------------------------- queue calls
\* The two add methods called directly.  The clock the method reads lies
\* offset ms into the current tick, and the time handed in lies delay ms
\* from that clock: an hour or a millisecond before it, on it, or after it.
ClockOffsets == {0, 1, 150000}
CallDelays == {-3600000, -1, 0, 1, 300000}

\* The jobId option the add methods pass to bull: the queue's prefix, the
\* occurrence id, for an escalation the level, and the clock in ms.
reminderJobId(s, clock) ==
  [queue |-> "reminder", sid |-> s, level |-> 0, clock |-> clock]

escalationJobId(s, level, clock) ==
  [queue |-> "escalation", sid |-> s, level |-> level, clock |-> clock]

\* bull's add with a jobId the queue already holds adds nothing and hands
\* back the job that is there; call.ids are the ids the queue holds.
Held(jobId) == {k \in call.ids : k.jobId = jobId}

addReminderCall(s, offset, delay) ==
  LET clock == now * TickMs + offset
      jobId == reminderJobId(s, clock)
      refused == addReminderRefuses(delay)
      dup == ~refused /\ Held(jobId) # {}
      q2 == IF dup THEN rq ELSE addReminderAt(rq, nextId, s, clock + delay, clock)
  IN /\ call.n < env.max.api
     /\ rq' = q2
     /\ call' = [n |-> call.n + 1, fn |-> "addReminder", sid |-> s, arg |-> 0,
                 clock |-> clock,
                 time |-> clock + delay,
                 job |-> IF refused THEN 0
                         ELSE IF dup THEN (CHOOSE k \in Held(jobId) : TRUE).job
                         ELSE nextId,
                 ids |-> IF refused \/ dup THEN call.ids
                         ELSE call.ids \cup {[jobId |-> jobId, job |-> nextId]},
                 dup |-> dup, ret |-> 0]
     /\ nextId' = nextId + 1
     /\ UNCHANGED <<now, env, user, sched, eq, escRecs, outbox, resp, budget, last, removed, med, xp, upd, res>>

addEscalationCall(s, level, offset, delay) ==
  LET clock == now * TickMs + offset
      jobId == escalationJobId(s, level, clock)
      dup == Held(jobId) # {}
      q2 == IF dup THEN eq ELSE addEscalation(eq, nextId, s, level, TickOf(clock + delay))
  IN /\ call.n < env.max.api
     /\ eq' = q2
     /\ call' = [n |-> call.n + 1, fn |-> "addEscalation", sid |-> s, arg |-> level,
                 clock |-> clock,
                 time |-> clock + delay,
                 job |-> IF dup THEN (CHOOSE k \in Held(jobId) : TRUE).job ELSE nextId,
                 ids |-> IF dup THEN call.ids
                         ELSE call.ids \cup {[jobId |-> jobId, job |-> nextId]},
                 dup |-> dup, ret |-> 0]
     /\ nextId' = nextId + 1
     /\ UNCHANGED <<now, env, user, sched, rq, escRecs, outbox, resp, budget, last, removed, med, xp, upd, res>>

\* schedulerService.snoozeReminder called for any occurrence id: findById,
\* and for an occurrence that is there addReminder with isSnoozed for the
\* clock plus the minutes; that time is returned.  The clock is read one
\* millisecond into the tick.
snoozeFoundAlways(s) == TRUE

snoozeFound(s) == Exists(s)

snoozeReminderCall(s, minutes) ==
  LET clock == now * TickMs + 1
      snoozeUntil == clock + minutes * 60 * 1000
      found == snoozeFound(s)
  IN /\ call.n < env.max.api
     /\ rq' = IF found THEN rq \cup {ReminderJob(nextId, s, TickOf(snoozeUntil), TRUE)}
               ELSE rq
     /\ call' = [n |-> call.n + 1, fn |-> "snoozeReminder", sid |-> s, arg |-> minutes,
                 clock |-> clock,
                 time |-> IF found THEN snoozeUntil ELSE Undefined,
                 job |-> IF found THEN nextId ELSE 0,
                 ids |-> call.ids, dup |-> FALSE, ret |-> 0]
     /\ nextId' = nextId + 1
     /\ UNCHANGED <<now, env, user, sched, eq, escRecs, outbox, resp, budget, last, removed, med, xp, upd, res>>

\* removeByScheduleId of the reminder queue (queue 0) or of the escalation
\* queue (queue 1) called for any occurrence id; ret is the number returned.
RemoveQueues == {0, 1}

removeByScheduleIdCall(queue, s) ==
  LET q == IF queue = 0 THEN rq ELSE eq
      q2 == removeByScheduleId(q, s)
  IN /\ call.n < env.max.api
     /\ rq' = IF queue = 0 THEN q2 ELSE rq
     /\ eq' = IF queue = 1 THEN q2 ELSE eq
     /\ removed' = removed \cup {j.id : j \in q \ q2}
     /\ call' = [n |-> call.n + 1, fn |-> "removeByScheduleId", sid |-> s, arg |-> queue,
                 clock |-> now * TickMs + 1, time |-> 0, job |-> 0,
                 ret |-> Cardinality(q \ q2), ids |-> call.ids, dup |-> FALSE]
     /\ UNCHANGED <<now, env, user, sched, escRecs, outbox, resp, nextId, budget, last, med, xp, upd, res>>

\* ------------------------------------------------------------- service calls
\* escalationService.scheduleEscalation called for any occurrence id and level.
ScheduleEscalation(s, level) ==
  /\ budget.api < env.max.api
  /\ eq' = scheduleEscalation(eq, nextId, s, level)
  /\ nextId' = nextId + 1
  /\ budget' = [budget EXCEPT !.api = @ + 1]
  /\ UNCHANGED <<now, env, call, med, xp, upd, res, user, sched, rq, escRecs, outbox, resp, last, removed>>

\* escalationService.cancelEscalation
cancelledRecord(r) ==
  [r EXCEPT !.status = "cancelled", !.resolved = TRUE,
            !.resolvedAt = now, !.resolvedBy = "user"]

cancelEscalation(s) ==
  /\ budget.cancel < env.max.cancel
  /\ eq' = removeByScheduleId(eq, s)
  /\ removed' = removed \cup {j.id : j \in eq \ removeByScheduleId(eq, s)}
  /\ escRecs' = {IF r.sid = s /\ r.status = "pending" THEN cancelledRecord(r) ELSE r
                   : r \in escRecs}
  /\ budget' = [budget EXCEPT !.cancel = @ + 1]
  /\ last' = [q |-> "api", sid |-> s, level |-> 0, result |-> "cancel"]
  /\ UNCHANGED <<now, env, call, med, xp, upd, res, user, sched, rq, outbox, resp, nextId>>

ApiLevels == 0..6

Workers ==
  \/ \E j \in rq : ReminderDispatch(j)
  \/ \E j \in rq : sendReminderFetch(j)
  \/ \E j \in rq, n \in 0..2 : sendReminderSend(j, n)
  \/ \E j \in rq : sendReminderSave(j)
  \/ \E j \in rq : sendReminderEscalate(j)
  \/ \E j \in eq : EscalationDispatch(j)
  \/ \E j \in eq : handleEscalationFetch(j)
  \/ \E j \in eq, n \in 0..2 : handleEscalationSend(j, n)
  \/ \E j \in eq : handleEscalationSave(j)

Responses ==
  \/ \E kind \in {"taken", "snoozed", "skipped"} : ResponseFind(kind)
  \/ \E r \in resp : handleTaken(r)
  \/ \E r \in resp : handleSkip(r)
  \/ \E r \in resp : handleSnooze(r)
  \/ \E r \in resp : handleMedicationTaken(r)
  \/ \E r \in resp : messageHandleSnooze(r)

\* The flows the program itself runs.
Next ==
  \/ Tick
  \/ \E s \in Sched, t \in 1..MaxDue : CreateSchedule(s, t)
  \/ Workers
  \/ Responses
  \/ pauseMedicationSchedules
  \/ resumeMedicationSchedules
  \/ resumeMedicationSchedulesRequeue

\* The same with the escalation service called from outside: any level for
\* any occurrence id, and cancelEscalation.
NextApi ==
  \/ Tick
  \/ \E s \in Sched, t \in 1..MaxDue : CreateSchedule(s, t)
  \/ Workers
  \/ Responses
  \/ \E j \in eq, callOk \in BOOLEAN, n \in 0..2 : makeVoiceCall(j, callOk, n)
  \/ \E j \in eq, n \in 0..1 : alertCaregiver(j, n)
  \/ \E s \in Sched, level \in ApiLevels : ScheduleEscalation(s, level)
  \/ \E s \in Sched : cancelEscalation(s)

Spec == Init /\ [][Next]_vars

SpecApi == InitApi /\ [][NextApi]_vars

\* The reminder and escalation flow with updateScheduleTime called from
\* outside, for an occurrence id that exists or not and any new time.
InitReschedule == InitWith({1}, FALSE, CoreProfiles, Limits(0, 0, 0, 0, 0))

NextReschedule ==
  \/ Tick
  \/ \E s \in Sched, t \in 1..MaxDue : CreateSchedule(s, t)
  \/ Workers
  \/ \E s \in Sched, t \in 0..MaxNewTime, saveOk \in BOOLEAN : updateScheduleTime(s, t, saveOk)
  \/ updateScheduleTimeQueue

SpecReschedule == InitReschedule /\ [][NextReschedule]_vars

\* The reminder and escalation flow with the queues' add methods called
\* from outside.
InitQueue == InitWith({1}, FALSE, CoreProfiles, Limits(0, 0, 0, MaxQueueCalls, 0))

NextQueue ==
  \/ Tick
  \/ \E s \in Sched, t \in 1..MaxDue : CreateSchedule(s, t)
  \/ Workers
  \/ \E s \in Sched, o \in ClockOffsets, d \in CallDelays : addReminderCall(s, o, d)
  \/ \E s \in Sched, o \in ClockOffsets, d \in CallDelays : addEscalationCall(s, 1, o, d)

SpecQueue == InitQueue /\ [][NextQueue]_vars

\* The add methods of the two queues called any number of times up to
\* MaxIdCalls, with no worker attached: what each call put into its queue.
IdProfiles == {u \in CoreProfiles : ~u.quiet /\ ~u.voiceReminders /\ u.escalationEnabled}

InitJobIds == InitWith({1}, FALSE, IdProfiles, Limits(0, 0, 0, MaxIdCalls, 0))

NextJobIds ==
  \/ Tick
  \/ \E s \in Sched, o \in ClockOffsets, d \in CallDelays : addReminderCall(s, o, d)
  \/ \E s \in Sched, o \in ClockOffsets, d \in CallDelays : addEscalationCall(s, 1, o, d)

SpecJobIds == InitJobIds /\ [][NextJobIds]_vars

\* The reminder and escalation flow with snoozeReminder called from outside
\* for an occurrence id that exists or not.
SnoozeCallMinutes == {5, 30}

InitSnooze == InitWith({1}, FALSE, CoreProfiles, Limits(0, 0, 0, MaxApi, 0))

NextSnooze ==
  \/ Tick
  \/ \E s \in Sched, t \in 1..MaxDue : CreateSchedule(s, t)
  \/ Workers
  \/ \E s \in Sched, m \in SnoozeCallMinutes : snoozeReminderCall(s, m)

SpecSnooze == InitSnooze /\ [][NextSnooze]_vars

\* The reminder and escalation flow of two occurrences with
\* removeByScheduleId called from outside on either queue, and snoozeReminder
\* to give an occurrence a second Reminder Job.
RemoveProfiles == {u \in CoreProfiles : ~u.quiet /\ ~u.voiceReminders}

InitRemove == InitWith(Sched, FALSE, RemoveProfiles, Limits(0, 0, 0, MaxRemoveCalls, 0))

NextRemove ==
  \/ Tick
  \/ \E s \in Sched, t \in 1..MaxDue : CreateSchedule(s, t)
  \/ Workers
  \/ \E queue \in RemoveQueues, s \in Sched : removeByScheduleIdCall(queue, s)
  \/ \E s \in Sched : snoozeReminderCall(s, SnoozeMinutes)

SpecRemove == InitRemove /\ [][NextRemove]_vars

\* The reminder and escalation flow where outbound sends may fail: every
\* send of a handler is delivered or throws; scheduleEscalation is called
\* from outside to start any level, in a deployment with voice calls enabled
\* or not.
FaultProfiles == {u \in UserProfiles : ~u.quiet /\ u.escalationEnabled}

InitFaults == InitEnv({1}, TRUE, BOOLEAN, FaultProfiles, Limits(0, 0, 0, MaxApi, 0))

NextFaults ==
  \/ Tick
  \/ \E s \in Sched, t \in 1..MaxDue : CreateSchedule(s, t)
  \/ Workers
  \/ \E j \in eq, callOk \in BOOLEAN, n \in 0..2 : makeVoiceCall(j, callOk, n)
  \/ \E j \in eq, n \in 0..1 : alertCaregiver(j, n)
  \/ \E s \in Sched, level \in ApiLevels : ScheduleEscalation(s, level)

SpecFaults == InitFaults /\ [][NextFaults]_vars

\* Two occurrences with sends that may fail.  A job that is due is taken by
\* a worker and a handler that has begun runs on: the queue and the event
\* loop leave no enabled worker step waiting for ever.
LiveProfiles == {u \in CoreProfiles : ~u.quiet}

InitLive == InitWith(Sched, TRUE, LiveProfiles, Limits(0, 0, 0, 0, 0))

NextLive ==
  \/ Tick
  \/ \E s \in Sched, t \in 1..MaxDue : CreateSchedule(s, t)
  \/ Workers

SpecLive == InitLive /\ [][NextLive]_vars /\ WF_vars(Workers)

\* The reminder flow of two occurrences for any subject, quiet hours
\* included, with every send succeeding: time goes on, a due job is taken
\* and a handler that has begun runs on.
InitPending == InitWith(Sched, FALSE, CoreProfiles, Limits(0, 0, 0, 0, 0))

SpecPending == InitPending /\ [][NextLive]_vars /\ WF_vars(Tick) /\ WF_vars(Workers)

\* createSchedules alone, for every medication of Medications.
NextExpand ==
  \/ createSchedulesStart
  \/ createSchedulesStep
  \/ createSchedulesEnqueue
  \/ ExpandTick

SpecExpand == InitExpand /\ [][NextExpand]_vars
\* ============================================================= claims

\* The step that ends job j's handler: j is gone from the queue or back in
\* it for a retry.
Leaves(j, q2, pc) == j.pc = pc /\ ~\E k \in q2 : k.id = j.id /\ k.pc = pc

\* C1: no escalation notification goes out for an occurrence whose status is
\* no longer `sent`, whatever the interleaving of the response and the
\* escalation handler.
C1_NoEscalationOnceResolved ==
  [][\A m \in outbox' \ outbox :
       m.src = "escalation" => sched[m.sid].status = "sent"]_vars

\* C2: an escalation handler that runs for an occurrence that is missing or
\* not `sent` sends nothing, creates no Escalation Record, leaves the
\* occurrence alone and schedules nothing further.
C2_ResolvedLevelIsSkipped ==
  [][\A j \in eq :
       (/\ Leaves(j, eq', "fetch")
        /\ ~(sched[j.sid].status = "sent"))
       => /\ eq' = eq \ {j}
          /\ UNCHANGED <<sched, escRecs, outbox, rq>>]_vars

C2_Witness ==
  /\ last.q = "escalation"
  /\ last.result = "noop"
  /\ sched[last.sid].status = "taken"

\* C3: once a taken or skipped response has been applied, no not-yet-fired
\* Escalation Job of the occurrence is queued and none of its Escalation
\* Records is pending.
C3_ResponseCancelsEscalation ==
  \A s \in Sched :
    (/\ sched[s].status \in {"taken", "skipped"}
     /\ ~\E r \in resp : r.sid = s)
    => /\ ~\E j \in eq : j.sid = s /\ j.pc = "queued"
       /\ ~\E r \in escRecs : r.sid = s /\ r.status = "pending"

C5_ChainRestsOnlyAfterLevel5 ==
  \A s \in Sched :
    (/\ user.escalationEnabled
     /\ sched[s].status = "sent"
     /\ ~\E j \in rq : j.sid = s /\ j.pc \in {"save", "esc"}
     /\ ~\E j \in eq : j.sid = s)
    => sched[s].level = 5

\* C6: when the handler of level N (1..4) finishes on a `sent` occurrence,
\* an Escalation Job for level N+1 is on the escalation queue, due after the
\* delay getEscalationDelay gives for N+1.
C6_NextLevelQueuedWithTableDelay ==
  [][\A j \in eq :
       (/\ Leaves(j, eq', "save")
        /\ j.level \in 1..4
        /\ sched[j.sid].status = "sent")
       => \E k \in eq' \ eq :
            /\ IsQueueJob(k) /\ k.pc = "queued"
            /\ k.sid = j.sid /\ k.level = j.level + 1
            /\ k.due = now + Ticks(getEscalationDelay(j.level + 1))]_vars

\* C7: the levels of one occurrence are handled in strictly increasing
\* order: a handler that completes for level N finds only lower levels
\* stamped on the occurrence.
C7_LevelsStrictlyIncrease ==
  [][\A j \in eq :
       Leaves(j, eq', "save") => sched[j.sid].level < j.level]_vars

\* C8: level 4 handled for a `sent` occurrence without a caregiver sends
\* nothing, sets neither the record's caregiver block nor the occurrence's
\* caregiver flag, and level 5 is scheduled next.
C8_Level4WithoutCaregiverAdvances ==
  [][\A j \in eq :
       (/\ Leaves(j, eq', "save")
        /\ j.level = 4
        /\ ~user.caregivers
        /\ sched[j.sid].status = "sent")
       => /\ ~\E m \in outbox' : m.job = j.id
          /\ ~sched'[j.sid].cg
          /\ \A r \in escRecs' : r.job = j.id => ~r.cgNotified
          /\ \E k \in eq' \ eq : k.sid = j.sid /\ k.level = 5]_vars

AllowedTransitions ==
  {<<"pending", "sent">>, <<"sent", "taken">>, <<"sent", "snoozed">>,
   <<"sent", "skipped">>, <<"sent", "missed">>, <<"pending", "paused">>,
   <<"paused", "pending">>}

\* C9: every status change of an existing occurrence is one of the seven
\* transitions of the lifecycle.
C9_OnlyLifecycleTransitions ==
  [][\A s \in Sched :
       (Exists(s) /\ sched'[s].status # sched[s].status)
       => <<sched[s].status, sched'[s].status>> \in AllowedTransitions]_vars

\* C10: a status of taken, skipped or missed never changes again.
C10_TerminalStatusIsFinal ==
  [][\A s \in Sched :
       sched[s].status \in {"taken", "skipped", "missed"}
       => sched'[s].status = sched[s].status]_vars

\* C11: the Reminder Job a snooze queued, firing while the occurrence is
\* still snoozed (outside quiet hours), goes on to send the reminder again.
C11_SnoozeRefireSendsReminder ==
  [][\A j \in rq :
       (/\ j.snoozed
        /\ Leaves(j, rq', "fetch")
        /\ sched[j.sid].status = "snoozed"
        /\ ~isQuietHours)
       => \E k \in rq' : k.id = j.id /\ k.pc = "send"]_vars

\* C12: an occurrence whose level 5 has been handled and for which nothing
\* is queued or in flight any more is not left in status `sent`.
C12_MissedAfterMaxLevel ==
  \A s \in Sched :
    (/\ sched[s].level = 5
     /\ ~\E j \in rq \cup eq : j.sid = s
     /\ ~\E r \in resp : r.sid = s)
    => sched[s].status # "sent"

\* C13: every occurrence createSchedules creates is due strictly after the
\* time of the call; a slot at or before it is passed over.
C13_OnlyFutureOccurrences ==
  \A o \in xp.created : o.time > xp.callTime

\* The call came at 08:00 sharp or later: the 08:00 slot of day 0 was passed
\* over, later occurrences were created and the walk ended without error.
C13_Witness ==
  /\ xp.pc = "done"
  /\ xp.created # {}
  /\ \E i \in 1..Len(med.times) :
       /\ getScheduledTime(0, med.times[i]) <= xp.callTime
       /\ shouldScheduleToday(med, 0)
       /\ ~\E o \in xp.created : o.day = 0 /\ o.slot = i

\* C14: when createSchedules returns, each occurrence it created has
\* exactly one Reminder Job in the reminder queue.
C14_OneJobPerCreatedOccurrence ==
  xp.pc = "done"
  => \A o \in xp.created : Cardinality({j \in rq : j.sid = o.id}) = 1

\* C15: a daily definition of duration D with k slots yields D * k
\* occurrences less the slots of the start day that are past at the call
\* (13 for slots 08:00 and 20:00, D = 7, called at 09:00).
C15_DailyOccurrenceCount ==
  (/\ xp.pc = "done"
   /\ xp.ticks = 0
   /\ med.frequency = "daily")
  => Cardinality(xp.created)
       = med.duration * Len(med.times)
         - Cardinality({i \in 1..Len(med.times) :
                          getScheduledTime(0, med.times[i]) <= xp.callTime})

C17_ResumeRestoresFuturePaused ==
  [][(res.pc = "found" /\ res'.pc = "idle")
     => \A s \in Sched :
          LET newJobs == {j \in rq' \ rq : j.sid = s}
          IN IF s \in res.found
             THEN /\ sched'[s].status = "pending"
                  /\ \E j \in newJobs : j.pc = "queued" /\ j.due = sched[s].time
             ELSE /\ sched'[s] = sched[s]
                  /\ newJobs = {}]_vars

\* C18: once pause has moved an occurrence from `pending` to `paused`, no
\* delayed or waiting Reminder Job of that occurrence is in the queue.
C18_PauseRemovesQueuedReminders ==
  [][budget'.pause # budget.pause
     => \A s \in Sched :
          (sched[s].status = "pending" /\ sched'[s].status = "paused")
          => ~\E j \in rq' : j.sid = s /\ j.pc = "queued"]_vars

\* C19: when updateScheduleTime(occurrence, t2) has completed for an existing
\* occurrence, the occurrence is due at t2, no job of the occurrence in the
\* reminder queue carries the old due time, and exactly one carries t2.
C19_RescheduleReplacesJob ==
  [][(upd.result = "saved" /\ upd'.result = "ok")
     => LET jobs == {j \in rq' : j.sid = upd.sid}
        IN /\ sched'[upd.sid].time = upd.new
           /\ upd.old # upd.new => \A j \in jobs : j.time # upd.old
           /\ Cardinality({j \in jobs : j.time = upd.new}) = 1]_vars

\* C20: updateScheduleTime for an id without occurrence ends with the
\* not-found error, and a call that ends with that error or with the error of
\* a failed save changes neither the reminder queue nor any occurrence; no
\* queue update follows the error.
C20_FailedRescheduleChangesNothing ==
  [][/\ (upd'.n # upd.n /\ ~Exists(upd'.sid)) => upd'.result = "notfound"
     /\ (upd'.n # upd.n /\ upd'.result \in {"notfound", "error"})
          => rq' = rq /\ sched' = sched /\ nextId' = nextId
     /\ (upd'.n = upd.n /\ upd.result \in {"notfound", "error"})
          => upd' = upd]_vars

\* A call for the missing id 2 ended not-found while the queue held the job
\* of occurrence 1.
C20_Witness ==
  /\ upd.result = "notfound"
  /\ ~Exists(upd.sid)
  /\ \E j \in rq : j.pc = "queued"

\* C21: addReminder called with a time before the clock it reads returns no
\* job and leaves the reminder queue as it was, and nothing is sent; called
\* with a time equal to that clock (delay 0), and a job id the queue does
\* not hold yet, it returns a job, and that job is in the queue.
C21_AddReminderRefusesOnlyPast ==
  [][(call'.n # call.n /\ call'.fn = "addReminder")
     => /\ call'.time < call'.clock
            => call'.job = 0 /\ rq' = rq /\ outbox' = outbox
        /\ (call'.time = call'.clock /\ ~call'.dup)
            => /\ call'.job # 0
               /\ Cardinality(rq' \ rq) = 1
               /\ \E j \in rq' \ rq : j.id = call'.job /\ j.pc = "queued"]_vars

\* A call with delay 0 has put its job into the queue.
C21_Witness ==
  /\ call.fn = "addReminder"
  /\ call.time = call.clock
  /\ \E j \in rq : j.id = call.job /\ j.pc = "queued"

\* C22: addEscalation returns a job and that job is in the escalation queue
\* for every scheduled-for time, those equal to and before the clock
\* included, when the queue does not hold the job id yet.
C22_AddEscalationAlwaysEnqueues ==
  [][(call'.n # call.n /\ call'.fn = "addEscalation" /\ ~call'.dup)
     => /\ call'.job # 0
        /\ Cardinality(eq' \ eq) = 1
        /\ \E j \in eq' \ eq : j.id = call'.job /\ j.pc = "queued"]_vars

\* A call with a time an hour before the clock has put its job into the queue.
C22_Witness ==
  /\ call.fn = "addEscalation"
  /\ call.time < call.clock - TickMs
  /\ \E j \in eq : j.id = call.job /\ j.pc = "queued"

\* The delays of the escalation levels as the specification lists them.
C23_Table(level) ==
  IF level = 1 THEN 1800000
  ELSE IF level \in {2, 3} THEN 900000
  ELSE IF level = 4 THEN 600000
  ELSE IF level = 5 THEN 300000
  ELSE 1800000

\* C23: getEscalationDelay gives 1800000 ms for level 1, 900000 ms for levels
\* 2 and 3, 600000 ms for level 4, 300000 ms for level 5 and 1800000 ms for
\* any other level, and scheduleEscalation adds exactly one Escalation Job,
\* due now + the delay of its level.
C23_DelayTableAndDueTime ==
  [][/\ \A level \in {0, 1, 2, 3, 4, 5, 6, 10, 99} :
          getEscalationDelay(level) = C23_Table(level)
     /\ budget'.api # budget.api
          => \E j \in eq' \ eq :
               /\ eq' = eq \cup {j}
               /\ j.pc = "queued"
               /\ j.due * TickMs = now * TickMs + C23_Table(j.level)]_vars

\* scheduleEscalation was called for level 4 and its job waits 600000 ms
\* ahead.
C23_Witness ==
  /\ budget.api > 0
  /\ \E j \in eq : j.level = 4 /\ j.pc = "queued" /\ j.due * TickMs = now * TickMs + 600000

\* C24: a job delivered a second time sends nothing the first delivery
\* already sent: no two attempts of one Reminder Job or one Escalation Job
\* deliver the same kind of notification.
C24_RedeliverySendsNothingNew ==
  \A m1, m2 \in outbox :
    (m1.src = m2.src /\ m1.job = m2.job /\ m1.kind = m2.kind) => m1.att = m2.att

\* C25: the attempts and deliveries of one Escalation Job leave at most one
\* Escalation Record for its occurrence and level.
C25_OneRecordPerLevel ==
  \A r1, r2 \in escRecs :
    (r1.job = r2.job /\ r1.sid = r2.sid /\ r1.level = r2.level) => r1 = r2

\* C26: a Reminder Job whose handler finds the occurrence missing or in a
\* status other than `pending` ends there: nothing is sent, the occurrence
\* is unchanged and no escalation is scheduled.
C26_StaleReminderIsNoOp ==
  [][\A j \in rq :
       (/\ Leaves(j, rq', "fetch")
        /\ sched[j.sid].status # "pending")
       => /\ rq' = rq \ {j}
          /\ UNCHANGED <<sched, eq, escRecs, outbox>>]_vars

\* A Reminder Job has fired for a paused occurrence and ended without effect.
C26_Witness ==
  /\ last.q = "reminder"
  /\ last.result = "noop"
  /\ sched[last.sid].status = "paused"

\* C27: level 5 handled for a `sent` occurrence of a subject without clinic
\* affiliation sends the final critical-alert message to the subject (the
\* clinic is signalled for an affiliated subject only).
C27_Level5WithoutClinicAlertsSubject ==
  [][\A j \in eq :
       (/\ Leaves(j, eq', "act")
        /\ j.level = 5
        /\ ~user.clinicId)
       => \E m \in outbox' \ outbox :
            m.job = j.id /\ m.kind = "critical" /\ m.to = "user"]_vars

\* C28: in a deployment without voice calling, handling level 3 places no
\* voice call.
C28_NoCallWhenVoiceDisabled ==
  [][\A j \in eq :
       (/\ Leaves(j, eq', "act")
        /\ j.level = 3
        /\ ~env.voiceCalls)
       => ~\E m \in outbox' \ outbox : m.kind = "voice_call"]_vars

C30_FailedSendRaises ==
  [][/\ \A j \in rq :
          (j.pc = "send" /\ \E k \in rq' : k.id = j.id /\ k.pc = "save")
          => outbox' # outbox
     /\ \A j \in eq :
          (j.pc = "act" /\ \E k \in eq' : k.id = j.id /\ k.pc = "save")
          => \/ outbox' # outbox
             \/ j.level = 4 /\ ~user.caregivers
             \/ j.level = 5 /\ ~user.clinicId]_vars

\* The number of messages the sends of a Reminder Job's handler consist of,
\* and the same for an Escalation Job of level 1, 2 or 5.
C31_ReminderSends == IF user.voiceReminders THEN 2 ELSE 1

C31_EscalationSends(level) ==
  CASE level = 1 -> 1
    [] level = 2 -> IF user.voiceReminders THEN 2 ELSE 1
    [] level = 5 -> IF user.clinicId THEN 1 ELSE 0
    [] OTHER -> 0

\* The controller action of job j raises in this step: a send of it was not
\* delivered, or the Escalation Record was rejected.
C31_ReminderRaises(j) ==
  j.pc = "send" /\ Cardinality(outbox' \ outbox) < C31_ReminderSends

C31_EscalationRaises(j) ==
  \/ /\ j.pc = "fetch"
     /\ sched[j.sid].status = "sent"
     /\ escRecs' = escRecs
  \/ /\ j.pc = "act"
     /\ j.level \in {1, 2, 5}
     /\ Cardinality(outbox' \ outbox) < C31_EscalationSends(j.level)
  \/ /\ j.pc = "act"
     /\ j.level = 3
     /\ ~\E m \in outbox' \ outbox : m.kind = "voice_call"
     /\ Cardinality(outbox' \ outbox) < C31_EscalationSends(2)

\* C31: the step that ends a run of a job's handler reports success to the
\* queue exactly when the controller action has returned, and reports the
\* error exactly when it raised; an error is followed by the retry policy (the
\* job is queued again or has failed for good) and a success by neither.
C31_WorkerReportsControllerOutcome ==
  [][/\ \A j \in rq :
          (j.pc # "queued" /\ ~\E k \in rq' : k.id = j.id /\ k.pc # "queued")
          => /\ C31_ReminderRaises(j) <=> last'.result \in {"retry", "failed"}
             /\ ~C31_ReminderRaises(j) <=> last'.result \in {"done", "noop"}
             /\ last'.result = "retry" <=> \E k \in rq' : k.id = j.id
             /\ last'.q = "reminder" /\ last'.sid = j.sid
     /\ \A j \in eq :
          (j.pc # "queued" /\ ~\E k \in eq' : k.id = j.id /\ k.pc # "queued")
          => /\ C31_EscalationRaises(j) <=> last'.result \in {"retry", "failed"}
             /\ ~C31_EscalationRaises(j) <=> last'.result \in {"done", "noop"}
             /\ last'.result = "retry" <=> \E k \in eq' : k.id = j.id
             /\ last'.q = "escalation" /\ last'.sid = j.sid]_vars

\* A handler raised on its last attempt and the queue was told so.
C31_Witness ==
  /\ last.q = "escalation"
  /\ last.result = "failed"
  /\ \E r \in escRecs : r.sid = last.sid /\ r.att = EscalationAttempts - 1

\* C32: no job is run more often than its kind allows, 3 times for a
\* Reminder Job and 2 times for an Escalation Job: no attempt beyond these
\* is ever queued or running, sends anything or writes a record.
C32_AttemptsAreBounded ==
  /\ \A j \in rq : j.att < ReminderAttempts
  /\ \A j \in eq : j.att < EscalationAttempts
  /\ \A m \in outbox :
       m.att < (IF m.src = "reminder" THEN ReminderAttempts ELSE EscalationAttempts)
  /\ \A r \in escRecs : r.att < EscalationAttempts

\* A Reminder Job has failed on its third attempt and left the queue.
C32_Witness ==
  /\ last.q = "reminder"
  /\ last.result = "failed"
  /\ \E m \in outbox : m.src = "reminder" /\ m.att = ReminderAttempts - 1
  /\ rq = {}

\* The ids the jobs of two occurrences can carry: a Reminder Job and a
\* level-1 Escalation Job each.
C33_JobIds == 1..(2 * Cardinality(Sched))

\* C33: whatever other jobs fail, on one attempt or on all, every job that is
\* due is eventually done with: it is taken by a worker and leaves its queue,
\* completed or failed.
C33_DueJobsAreHandled ==
  \A id \in C33_JobIds :
    (\E j \in rq \cup eq : j.id = id /\ j.due <= now)
      ~> (~\E j \in rq \cup eq : j.id = id)

\* A job has failed for good while a job of the other occurrence is due.
C33_Witness ==
  /\ last.result = "failed"
  /\ \E j \in rq \cup eq : j.sid # last.sid /\ j.pc = "queued" /\ j.due <= now

\* C34: every call of an add method that is not refused for a past time puts
\* a job of its own into its queue: the job it returns was returned by no
\* earlier call, and it is new in the queue.
C34_EveryEnqueueAddsItsOwnJob ==
  [][(call'.n # call.n /\ ~(call'.fn = "addReminder" /\ call'.time < call'.clock))
     => /\ call'.job \notin {k.job : k \in call.ids}
        /\ \E j \in (rq' \cup eq') \ (rq \cup eq) : j.id = call'.job]_vars

C35_WitnessMissing ==
  /\ call.fn = "snoozeReminder"
  /\ ~Exists(call.sid)
  /\ call.time = Undefined

C36_FailedCallFallsBack ==
  [][\A j \in eq :
       (j.level = 3 /\ j.pc = "act" /\ \E k \in eq' : k.id = j.id /\ k.pc = "save")
       => LET sent == {m.kind : m \in {d \in outbox' \ outbox : d.job = j.id}}
          IN \/ sent = {"voice_call"}
             \/ sent = {voiceReminderMsgs[i].kind : i \in 1..Len(voiceReminderMsgs)}]_vars

\* C36: a level-2 Escalation Job handled for an occurrence in `sent` status of
\* a subject without voice reminders goes on to its action, the urgent text;
\* and a level-3 one whose call failed goes on to the level-2 action.
C36_Level2WithoutVoiceSendsUrgentText ==
  [][\A j \in eq :
       (/\ Leaves(j, eq', "fetch")
        /\ j.level \in {2, 3}
        /\ sched[j.sid].status = "sent"
        /\ ~user.voiceReminders)
       => \E k \in eq' : k.id = j.id /\ k.pc = "act"]_vars

\* C37: the escalation queue holds jobs only for a subject with escalation
\* enabled, only of level 1, only for occurrences whose reminder was sent,
\* and never two for one occurrence.
C37_OneLevel1JobPerSentReminder ==
  /\ \A k \in eq :
       /\ user.escalationEnabled
       /\ k.level = 1
       /\ sched[k.sid].status \notin {"absent", "pending", "paused"}
  /\ \A k1, k2 \in eq : k1.sid = k2.sid => k1.id = k2.id

\* The parts of C37 that do hold: an Escalation Job comes into the queue
\* only in the step that ends a Reminder Job's handler after the save of
\* `sent`, for a subject with escalation enabled, at level 1 and due 30
\* minutes later.
C37_EscalationOnlyAfterSend ==
  [][\A k \in eq' :
       (~\E e \in eq : e.id = k.id)
       => /\ user.escalationEnabled
          /\ k.level = 1
          /\ k.due = now + Ticks(30 * 60 * 1000)
          /\ \E j \in rq \ rq' : j.pc = "esc" /\ j.sid = k.sid]_vars

\* The queue removeByScheduleId was called on, before and after the call.
C38_Queue(queue, r, e) == IF queue = 0 THEN r ELSE e

\* C38: removeByScheduleId(id) takes out of its queue exactly the delayed and
\* waiting jobs of occurrence id and returns their number; the jobs of other
\* occurrences, the active jobs and the other queue stay as they were.
C38_RemovesExactlyTheQueuedJobs ==
  [][(call'.n # call.n /\ call'.fn = "removeByScheduleId")
     => LET q == C38_Queue(call'.arg, rq, eq)
            q2 == C38_Queue(call'.arg, rq', eq')
        IN /\ q2 \subseteq q
           /\ q \ q2 = {j \in q : j.pc = "queued" /\ j.sid = call'.sid}
           /\ call'.ret = Cardinality(q \ q2)
           /\ C38_Queue(1 - call'.arg, rq', eq') = C38_Queue(1 - call'.arg, rq, eq)]_vars

\* A call has removed a job while the queue held an active job of the same
\* occurrence and a job of the other occurrence, both of which are still there.
C38_Witness ==
  /\ call.fn = "removeByScheduleId"
  /\ call.ret = 1
  /\ LET q == C38_Queue(call.arg, rq, eq)
     IN /\ \E j \in q : j.sid # call.sid /\ j.pc = "queued"
        /\ \E j \in q : j.sid = call.sid /\ j.pc # "queued"

\* C39: no occurrence has two Reminder Jobs that are delayed or waiting in the
\* reminder queue at the same time.
C39_OneQueuedReminderPerOccurrence ==
  \A j1, j2 \in rq :
    (j1.sid = j2.sid /\ j1.pc = "queued" /\ j2.pc = "queued") => j1.id = j2.id

\* The part of C40 that does hold: outside quiet hours a pending occurrence
\* has its reminder sent.
C40_PendingIsSentOutsideQuietHours ==
  \A s \in Sched :
    (~user.quiet /\ sched[s].status = "pending") ~> (sched[s].status = "sent")

\* C40: every occurrence in `pending` status eventually has status `sent`.
C40_PendingIsEventuallySent ==
  \A s \in Sched : (sched[s].status = "pending") ~> (sched[s].status = "sent")
====
